---- MODULE Spec2Model ----
(***************************************************************************)
(* Model of the batch question-generation runners of question_agent:       *)
(*   enhanced_batch_pipeline.py  (configurable runner with retries)         *)
(*   batch_pipeline.py           (basic runner)                             *)
(*   simple_pipeline.py          (run_pipeline, the per-exam processor)     *)
(*   batch_config.py             (BatchConfig)                              *)
(* The relational store is modelled by the exam_overview rows and, for each *)
(* exam overview, the number of question rows joined to it through syllabus.*)
(* Wall-clock time is abstracted away; every wait is an event of the trace. *)
(***************************************************************************)
EXTENDS Integers, Sequences, FiniteSets, TLC

VARIABLES
    runner,                     \* "enhanced" | "basic": which entry point runs
    store,                      \* rows of exam_overview
    config,                     \* the BatchConfig of the run
    qcount,                     \* exam_overview_id -> stored question rows
    pc,                         \* position of the runner coroutine
    exam_overviews,             \* the list the loop walks (after the limit)
    total_exams,
    i,                          \* 1-based loop index (enumerate(..., 1))
    attempt,                    \* retry loop variable
    existing_count,
    last_error,
    results,
    completed,
    skipped,
    failed,
    total_questions_generated,
    returned,                   \* value handed back to the caller
    trace,                      \* observable events of this run, in order
    run,                        \* 1 for the first run over the store, 2 for a rerun
    hist,                       \* history of the item last processed: its index,
                                \* whether every run_pipeline call for it raised,
                                \* and the message of the last such failure
    args,                       \* the command line parsed by run_batch.py
    pl,                         \* one run_pipeline call followed step by step
    remaining_exams,            \* run_batch_pipeline_with_resume: the exams
                                \* found without questions
    exit_code,                  \* exit status of the run_batch.py process
    va,                         \* question_visual_agent: the thread pool of
                                \* analyze_questions_by_grade
    qb                          \* schemas.py: a QuestionBatch being validated

vars == <<runner, store, config, qcount, pc, exam_overviews, total_exams, i, attempt,
          existing_count, last_error, results, completed, skipped, failed,
          total_questions_generated, returned, trace, run, hist, args, pl,
          remaining_exams, exit_code, va, qb>>

----------------------------------------------------------------------------
(* Bounds of the model *)

MaxRetries == 1         \* max_retries ranges over -1..MaxRetries
MaxGen == 1             \* questions one section can add in one pass
MaxInit == 1            \* question rows an exam may hold before the run
MaxStored == 2          \* cap on the question rows of one exam
MaxLimit == 1           \* max_exams ranges over None and -1..MaxLimit
MaxQuestions == 2       \* questions one generation call hands back
MaxQuestionIds == 3     \* active questions of the analysed grade
MaxWorkers == 2         \* max_workers ranges over 0..MaxWorkers
MaxBatch == 2           \* questions of one QuestionBatch before validation
MaxRows == 3            \* cap on the rows of the questions table followed
                        \* row by row

----------------------------------------------------------------------------
(* Python's None, Optional values and truthiness *)

None == "None"

NoneOpt == [none |-> TRUE, v |-> <<>>]

Some(x) == [none |-> FALSE, v |-> x]

\* `if config.exam_filter:` : a list is truthy when it is set and non-empty
TruthyList(o) == ~o.none /\ Len(o.v) > 0

\* `if config.max_exams:` : an int is truthy when it is set and non-zero
TruthyInt(o) == ~o.none /\ o.v # 0

Min(a, b) == IF a < b THEN a ELSE b

Max(a, b) == IF a > b THEN a ELSE b

\* Python slice lst[:m]
SliceTo(lst, m) ==
    LET n == Len(lst)
        stop == IF m >= 0 THEN Min(m, n) ELSE Max(n + m, 0)
    IN  SubSeq(lst, 1, stop)

Range(s) == {s[k] : k \in 1..Len(s)}

----------------------------------------------------------------------------
(* The exam_overview table: the rows a store may hold *)

Overviews ==
    { [exam_overview_id |-> 1, exam |-> "IEO", grade |-> 6,  level |-> 1,
       total_questions |-> 3],
      [exam_overview_id |-> 2, exam |-> "IMO", grade |-> 6,  level |-> 1,
       total_questions |-> 3],
      [exam_overview_id |-> 3, exam |-> "IMO", grade |-> 12, level |-> 2,
       total_questions |-> 3] }

OverviewIds == {o.exam_overview_id : o \in Overviews}

\* sections table: number of sections (each with syllabus topics) per exam
Sections(id) ==
    CASE id = 1 -> 1
      [] id = 2 -> 2
      [] OTHER  -> 0

\* question texts the generator may produce: two that differ in case only,
\* and a third one
QuestionTexts == {"What is 2 + 2?", "WHAT IS 2 + 2?", "What is 3 + 3?"}

\* SQL LOWER()
Lower(s) ==
    CASE s = "IMO" -> "imo"
      [] s = "IEO" -> "ieo"
      [] s = "What is 2 + 2?" -> "what is 2 + 2?"
      [] s = "WHAT IS 2 + 2?" -> "what is 2 + 2?"
      [] s = "What is 3 + 3?" -> "what is 3 + 3?"
      [] OTHER     -> s

\* collation rank of the exam column for ORDER BY
ExamRank(s) ==
    CASE s = "IEO" -> 1
      [] s = "IMO" -> 2
      [] OTHER     -> 3

\* ORDER BY exam, grade, level
RowBefore(a, b) ==
    \/ ExamRank(a.exam) < ExamRank(b.exam)
    \/ ExamRank(a.exam) = ExamRank(b.exam) /\ a.grade < b.grade
    \/ ExamRank(a.exam) = ExamRank(b.exam) /\ a.grade = b.grade
       /\ a.level < b.level

RECURSIVE OrderBy(_)
OrderBy(S) ==
    IF S = {} THEN <<>>
    ELSE LET first == CHOOSE a \in S : \A b \in S \ {a} : RowBefore(a, b)
         IN  <<first>> \o OrderBy(S \ {first})

----------------------------------------------------------------------------
(* BatchConfig *)

\* the dataclass defaults
DefaultConfig ==
    [skip_existing |-> FALSE, max_exams |-> NoneOpt, delay_between_exams |-> 1,
     exam_filter |-> NoneOpt, grade_filter |-> NoneOpt, level_filter |-> NoneOpt,
     max_retries |-> 3, continue_on_error |-> TRUE]

MaxExamsValues == {NoneOpt} \cup {Some(m) : m \in -1..MaxLimit}

Delays == {0, 1}

\* configs of the runs explored step by step
RunConfigs ==
    { [DefaultConfig EXCEPT !.skip_existing = se, !.max_exams = me,
                            !.delay_between_exams = d, !.max_retries = r,
                            !.continue_on_error = ce, !.exam_filter = ef]
      : se \in BOOLEAN, me \in MaxExamsValues, d \in Delays,
        r \in -1..MaxRetries, ce \in BOOLEAN,
        ef \in {NoneOpt, Some(<<"IMO">>)} }

\* run_batch_pipeline(skip_existing, max_exams): the basic runner's arguments
BasicConfigs ==
    { [DefaultConfig EXCEPT !.skip_existing = se, !.max_exams = me]
      : se \in BOOLEAN, me \in MaxExamsValues }

----------------------------------------------------------------------------
(* get_filtered_exam_overviews / get_all_exam_overviews *)

\* variant: the conditions joined by OR
WhereClause_Or(o, cfg) ==
    \/ ~TruthyList(cfg.exam_filter) /\ ~TruthyList(cfg.grade_filter)
       /\ ~TruthyList(cfg.level_filter)
    \/ TruthyList(cfg.exam_filter)  /\ o.exam  \in Range(cfg.exam_filter.v)
    \/ TruthyList(cfg.grade_filter) /\ o.grade \in Range(cfg.grade_filter.v)
    \/ TruthyList(cfg.level_filter) /\ o.level \in Range(cfg.level_filter.v)

\* the WHERE clause: one `col = ANY(:filter)` per truthy filter, joined by AND
WhereClause(o, cfg) ==
    /\ TruthyList(cfg.exam_filter)  => o.exam  \in Range(cfg.exam_filter.v)
    /\ TruthyList(cfg.grade_filter) => o.grade \in Range(cfg.grade_filter.v)
    /\ TruthyList(cfg.level_filter) => o.level \in Range(cfg.level_filter.v)

get_filtered_exam_overviews(rows, cfg) ==
    OrderBy({o \in rows : WhereClause(o, cfg)})

get_all_exam_overviews(rows) == OrderBy(rows)

\* `if config.max_exams: exam_overviews = exam_overviews[:config.max_exams]`
ApplyLimit(lst, max_exams) ==
    IF TruthyInt(max_exams) THEN SliceTo(lst, max_exams.v) ELSE lst

----------------------------------------------------------------------------
(* run_pipeline (simple_pipeline.py) *)

\* fetch_exam_overview_id: rows matching LOWER(exam), grade, level; LIMIT 1
\* without ORDER BY returns any one of them
fetch_exam_overview_id(rows, exam, grade, level) ==
    {o.exam_overview_id : o \in
        {x \in rows : Lower(x.exam) = Lower(exam) /\ x.grade = grade
                      /\ x.level = level}}

ErrNoExam == "ValueError: No exam found"

ErrDb == "OperationalError: database unavailable"

ErrCommit == "OperationalError: commit failed"

ErrCount == "OperationalError: count query failed"

\* The ways one run_pipeline call can end: it returns, or raises `error`;
\* `qcount` is the store it leaves behind.  Generation failures are swallowed
\* by generate_questions_with_agent (a section then yields no question) and
\* per-question save errors by save_questions_to_db, so a returning call adds
\* 0..MaxGen rows per section.  A failing commit of one section raises after
\* the sections before it were committed.  The rows of one exam are capped at
\* MaxStored.
RunPipelineOutcomes(rows, qc, exam, grade, level) ==
    LET targets == fetch_exam_overview_id(rows, exam, grade, level)
        dbfail  == {[raised |-> TRUE, error |-> ErrDb, qcount |-> qc]}
        noexam  == {[raised |-> TRUE, error |-> ErrNoExam, qcount |-> qc]}
        ret(t)  == {[raised |-> FALSE, error |-> None,
                     qcount |-> [qc EXCEPT ![t] = @ + k]]
                    : k \in 0..(Sections(t) * MaxGen)}
        commit(t) == IF Sections(t) = 0 THEN {}
                     ELSE {[raised |-> TRUE, error |-> ErrCommit,
                            qcount |-> [qc EXCEPT ![t] = @ + k]]
                           : k \in 0..((Sections(t) - 1) * MaxGen)}
        all == IF targets = {} THEN noexam \cup dbfail
               ELSE dbfail \cup UNION {ret(t) \cup commit(t) : t \in targets}
    IN  {out \in all : \A id \in OverviewIds : out.qcount[id] <= MaxStored}

----------------------------------------------------------------------------
(* Values handed back to the caller of a runner *)

Pending == [kind |-> "pending", v |-> <<>>, error |-> None]

ReturnList(lst) == [kind |-> "list", v |-> lst, error |-> None]

ReturnNone == [kind |-> "None", v |-> <<>>, error |-> None]

Raise(err) == [kind |-> "raised", v |-> <<>>, error |-> err]

ErrZeroDivision == "ZeroDivisionError: float division by zero"

\* enhanced_batch_pipeline.py line 222: `return []`
EnhancedEmptyReturn == ReturnList(<<>>)

\* variant: the basic runner returning an empty list
BasicEmptyReturn_List == ReturnList(<<>>)

\* batch_pipeline.py line 182: a bare `return`
BasicEmptyReturn == ReturnNone

\* one observable event: the progress query before an item, a run_pipeline
\* call, a wait, a log line
Ev(name, item, att) == [ev |-> name, item |-> item, att |-> att]

----------------------------------------------------------------------------
(* Initial states *)

NoHist == [item |-> 0, all_raised |-> TRUE, last_raised |-> None]

\* no command line: the runner is called as a function
NoArgs == [mode |-> "none"]

\* no run_pipeline call is followed step by step
NoPipeline == [pc |-> "idle"]

\* analyze_questions_by_grade is not running
NoVisual == [pc |-> "idle"]

\* no QuestionBatch is being validated
NoBatch == [validated |-> FALSE]

ZeroLocals ==
    /\ remaining_exams = <<>>
    /\ exit_code = None
    /\ exam_overviews = <<>>
    /\ total_exams = 0
    /\ i = 0
    /\ attempt = 0
    /\ existing_count = 0
    /\ last_error = None
    /\ results = <<>>
    /\ completed = 0
    /\ skipped = 0
    /\ failed = 0
    /\ total_questions_generated = 0
    /\ returned = Pending
    /\ trace = <<>>
    /\ hist = NoHist

ZeroState == pc = "start" /\ ZeroLocals

\* stores: some exam_overview rows, each with no question row or MaxInit rows
InitStore ==
    /\ store \in SUBSET Overviews
    /\ qcount \in [OverviewIds -> {0, MaxInit}]
    /\ \A id \in OverviewIds :
         id \notin {o.exam_overview_id : o \in store} => qcount[id] = 0

Init ==
    /\ InitStore
    /\ \/ runner = "enhanced" /\ config \in RunConfigs
       \/ runner = "basic" /\ config \in BasicConfigs
    /\ run = 1
    /\ va = NoVisual
    /\ qb = NoBatch
    /\ args = NoArgs
    /\ pl = NoPipeline
    /\ ZeroState

----------------------------------------------------------------------------
(* run_enhanced_batch_pipeline (enhanced_batch_pipeline.py) *)

CurrentExam == exam_overviews[i]

\* lines 217-240: fetch, early return on an empty list, limit, counters
Fetch ==
    /\ runner = "enhanced" /\ pc = "start"
    /\ LET all == get_filtered_exam_overviews(store, config)
       IN  IF all = <<>>
           THEN /\ trace' = Append(trace, Ev("log_no_overviews", 0, 0))
                /\ returned' = EnhancedEmptyReturn
                /\ pc' = "done"
                /\ UNCHANGED <<exam_overviews, total_exams, i>>
           ELSE LET lst == ApplyLimit(all, config.max_exams)
                IN  /\ exam_overviews' = lst
                    /\ total_exams' = Len(lst)
                    /\ i' = IF Len(lst) > 0 THEN 1 ELSE 0
                    /\ pc' = IF Len(lst) > 0 THEN "item" ELSE "summary"
                    /\ UNCHANGED <<trace, returned>>
    /\ UNCHANGED <<va, qb, remaining_exams, exit_code, args, pl, runner, store, config, run, hist, qcount, attempt, existing_count,
                   last_error, results, completed, skipped, failed,
                   total_questions_generated>>

\* variant: the runner catching the error and returning an empty list
EnumerationFailure_Swallowed(err) == ReturnList(<<>>)

\* line 218 (batch_pipeline.py line 178) is inside no try block: an exception
\* of the enumeration leaves the runner
EnumerationFailure(err) == Raise(err)

\* line 218 raising: the store cannot be reached
FetchFails ==
    /\ runner = "enhanced" /\ pc = "start"
    /\ pc' = "done"
    /\ trace' = Append(trace, Ev("fetch_raises", 0, 0))
    /\ returned' = EnumerationFailure(ErrDb)
    /\ UNCHANGED <<va, qb, remaining_exams, exit_code, args, pl, runner, store, config, run, hist, qcount, exam_overviews, total_exams,
                   i, attempt, existing_count, last_error, results, completed,
                   skipped, failed, total_questions_generated>>

\* variant: skips only when more than one question exists
ShouldSkip_MoreThanOne(cfg, count) == cfg.skip_existing /\ count > 1

\* line 140: `config.skip_existing and existing_count > 0`
ShouldSkip(cfg, count) == cfg.skip_existing /\ count > 0

\* variant: range(config.max_retries)
RetryRange_OneLess(cfg) == 0..(cfg.max_retries - 1)

\* line 157: range(config.max_retries + 1), the values attempt takes
RetryRange(cfg) == 0..cfg.max_retries

\* variant: a wait after every failed attempt
WaitsBeforeRetry_Always(cfg, att) == att <= cfg.max_retries

\* line 189: `attempt < config.max_retries`, the failure is followed by a wait
WaitsBeforeRetry(cfg, att) == att < cfg.max_retries

\* variant: no wait after a skipped item
InterItemDelay_NotSkipped(cfg, idx, total, result) ==
    idx < total /\ cfg.delay_between_exams > 0 /\ result.status # "skipped"

\* line 262: the wait after an item
InterItemDelay(cfg, idx, total, result) ==
    idx < total /\ cfg.delay_between_exams > 0

\* variant: the flag read the wrong way round
StopsOnFailure_Inverted(cfg, result) ==
    result.status = "failed" /\ cfg.continue_on_error

\* lines 257-259: the break on a failed result
StopsOnFailure(cfg, result) ==
    result.status = "failed" /\ ~cfg.continue_on_error

\* variant: results.insert(0, result)
AppendResult_Front(lst, result) == <<result>> \o lst

\* line 246 (batch_pipeline.py line 203): results.append(result)
AppendResult(lst, result) == Append(lst, result)

\* the for loop moving on (or falling out to the summary)
NextItem ==
    IF i < total_exams THEN i' = i + 1 /\ pc' = "item"
                       ELSE i' = i /\ pc' = "summary"

\* lines 246-263: append the result, update the counters, break or wait, and
\* continue the loop; tr is the trace up to the result
LoopBody(result, tr) ==
    /\ results' = AppendResult(results, result)
    /\ completed' = IF result.status = "completed" THEN completed + 1
                    ELSE completed
    /\ total_questions_generated' =
           IF result.status = "completed"
           THEN total_questions_generated + result.questions_generated
           ELSE total_questions_generated
    /\ skipped' = IF result.status = "skipped" THEN skipped + 1 ELSE skipped
    /\ failed' = IF result.status \notin {"completed", "skipped"}
                 THEN failed + 1 ELSE failed
    /\ IF StopsOnFailure(config, result)
       THEN /\ trace' = Append(tr, Ev("log_stopping", i, 0))
            /\ i' = i /\ pc' = "summary"
       ELSE /\ trace' = IF InterItemDelay(config, i, total_exams, result)
                        THEN Append(tr, Ev("sleep_inter", i, 0)) ELSE tr
            /\ NextItem

SkippedResult(o, count) ==
    [exam_overview_id |-> o.exam_overview_id, status |-> "skipped",
     questions_before |-> count, questions_after |-> count,
     questions_generated |-> 0, error |-> None, retries |-> 0]

\* variant: the retry count left at 0
CompletedResult_NoRetryCount(o, before, final, att) ==
    [exam_overview_id |-> o.exam_overview_id, status |-> "completed",
     questions_before |-> before, questions_after |-> final,
     questions_generated |-> final - before, error |-> None, retries |-> 0]

\* lines 173-185
CompletedResult(o, before, final, att) ==
    [exam_overview_id |-> o.exam_overview_id, status |-> "completed",
     questions_before |-> before, questions_after |-> final,
     questions_generated |-> final - before, error |-> None, retries |-> att]

\* lines 196-209; str(last_error) of None is "None"
FailedResult(o, before, err, cfg) ==
    [exam_overview_id |-> o.exam_overview_id, status |-> "failed",
     questions_before |-> before, questions_after |-> before,
     questions_generated |-> 0, error |-> err, retries |-> cfg.max_retries]

\* line 139 raising: the exception leaves process_single_exam_with_retry and
\* is caught at line 265; no result is appended and no wait follows
QueryBeforeRaises ==
    /\ runner = "enhanced" /\ pc = "item"
    /\ trace' = trace \o <<Ev("query_before", i, 0),
                           Ev("log_unexpected_error", i, 0)>>
    /\ IF ~config.continue_on_error THEN i' = i /\ pc' = "summary"
                                    ELSE NextItem
    /\ UNCHANGED <<va, qb, remaining_exams, exit_code, args, pl, runner, store, config, run, hist, qcount, exam_overviews, total_exams,
                   attempt, existing_count, last_error, results, completed,
                   skipped, failed, total_questions_generated, returned>>

\* lines 139-153: the item already has questions and skip_existing is set
SkipExisting ==
    /\ runner = "enhanced" /\ pc = "item"
    /\ LET count == qcount[CurrentExam.exam_overview_id]
       IN  /\ ShouldSkip(config, count)
           /\ existing_count' = count
           /\ LoopBody(SkippedResult(CurrentExam, count),
                       Append(trace, Ev("query_before", i, 0)))
    /\ UNCHANGED <<va, qb, remaining_exams, exit_code, args, pl, runner, store, config, run, hist, qcount, exam_overviews, total_exams,
                   attempt, last_error, returned>>

\* lines 139-157: the item is to be processed; with max_retries < 0 the retry
\* loop has no iteration and the failed result follows at once
StartProcessing ==
    /\ runner = "enhanced" /\ pc = "item"
    /\ LET count == qcount[CurrentExam.exam_overview_id]
           tr == Append(trace, Ev("query_before", i, 0))
       IN  /\ ~ShouldSkip(config, count)
           /\ existing_count' = count
           /\ last_error' = None
           /\ attempt' = 0
           /\ hist' = [item |-> i, all_raised |-> TRUE, last_raised |-> None]
           /\ IF 0 \in RetryRange(config)
              THEN /\ pc' = "attempt" /\ trace' = tr
                   /\ UNCHANGED <<i, results, completed, skipped, failed,
                                  total_questions_generated>>
              ELSE LoopBody(FailedResult(CurrentExam, count, None, config), tr)
    /\ UNCHANGED <<va, qb, remaining_exams, exit_code, args, pl, runner, store, config, run, qcount, exam_overviews, total_exams,
                   returned>>

\* lines 187-209: an attempt failed with err; tr is the trace up to the failure
HandleFailure(err, tr) ==
    LET tr2 == IF WaitsBeforeRetry(config, attempt)
               THEN Append(tr, Ev("sleep_retry", i, attempt))
               ELSE tr
    IN  /\ last_error' = err
        /\ IF attempt + 1 \in RetryRange(config)
           THEN /\ trace' = tr2
                /\ attempt' = attempt + 1
                /\ pc' = "attempt"
                /\ UNCHANGED <<i, results, completed, skipped, failed,
                               total_questions_generated>>
           ELSE /\ attempt' = attempt
                /\ LoopBody(FailedResult(CurrentExam, existing_count, err,
                                         config), tr2)

PipelineOutcomes ==
    RunPipelineOutcomes(store, qcount, CurrentExam.exam, CurrentExam.grade,
                        CurrentExam.level)

\* lines 162-185: run_pipeline returns and the final count is read
AttemptCompletes ==
    /\ runner = "enhanced" /\ pc = "attempt"
    /\ \E out \in PipelineOutcomes :
         /\ ~out.raised
         /\ qcount' = out.qcount
         /\ hist' = [hist EXCEPT !.all_raised = FALSE]
         /\ LoopBody(CompletedResult(CurrentExam, existing_count,
                                     out.qcount[CurrentExam.exam_overview_id],
                                     attempt),
                     Append(trace, Ev("run_pipeline", i, attempt)))
    /\ UNCHANGED <<va, qb, remaining_exams, exit_code, args, pl, runner, store, config, run, exam_overviews, total_exams, attempt,
                   existing_count, last_error, returned>>

\* lines 162-165, 187: run_pipeline returns but the final count query raises
AttemptCountFails ==
    /\ runner = "enhanced" /\ pc = "attempt"
    /\ \E out \in PipelineOutcomes :
         /\ ~out.raised
         /\ qcount' = out.qcount
         /\ hist' = [hist EXCEPT !.all_raised = FALSE]
         /\ HandleFailure(ErrCount,
                          Append(trace, Ev("run_pipeline", i, attempt)))
    /\ UNCHANGED <<va, qb, remaining_exams, exit_code, args, pl, runner, store, config, run, exam_overviews, total_exams,
                   existing_count, returned>>

\* lines 162, 187: run_pipeline raises
AttemptRaises ==
    /\ runner = "enhanced" /\ pc = "attempt"
    /\ \E out \in PipelineOutcomes :
         /\ out.raised
         /\ qcount' = out.qcount
         /\ hist' = [hist EXCEPT !.last_raised = out.error]
         /\ HandleFailure(out.error,
                          Append(trace, Ev("run_pipeline", i, attempt)))
    /\ UNCHANGED <<va, qb, remaining_exams, exit_code, args, pl, runner, store, config, run, exam_overviews, total_exams,
                   existing_count, returned>>

\* lines 270-298: the final summary; line 283 divides by total_exams
Summary ==
    /\ runner = "enhanced" /\ pc = "summary"
    /\ trace' = Append(trace, Ev("summary", total_exams, 0))
    /\ returned' = IF total_exams = 0 THEN Raise(ErrZeroDivision)
                   ELSE ReturnList(results)
    /\ pc' = "done"
    /\ UNCHANGED <<va, qb, remaining_exams, exit_code, args, pl, runner, store, config, run, hist, qcount, exam_overviews, total_exams,
                   i, attempt, existing_count, last_error, results, completed,
                   skipped, failed, total_questions_generated>>

----------------------------------------------------------------------------
(* run_batch_pipeline (batch_pipeline.py) *)

\* lines 178-197: fetch, early `return` (None) on an empty list, limit
BasicFetch ==
    /\ runner = "basic" /\ pc = "start"
    /\ LET all == get_all_exam_overviews(store)
       IN  IF all = <<>>
           THEN /\ trace' = Append(trace, Ev("log_no_overviews", 0, 0))
                /\ returned' = BasicEmptyReturn
                /\ pc' = "done"
                /\ UNCHANGED <<exam_overviews, total_exams, i>>
           ELSE LET lst == ApplyLimit(all, config.max_exams)
                IN  /\ exam_overviews' = lst
                    /\ total_exams' = Len(lst)
                    /\ i' = IF Len(lst) > 0 THEN 1 ELSE 0
                    /\ pc' = IF Len(lst) > 0 THEN "item" ELSE "summary"
                    /\ UNCHANGED <<trace, returned>>
    /\ UNCHANGED <<va, qb, remaining_exams, exit_code, args, pl, runner, store, config, run, hist, qcount, attempt, existing_count,
                   last_error, results, completed, skipped, failed,
                   total_questions_generated>>

\* line 178 raising
BasicFetchFails ==
    /\ runner = "basic" /\ pc = "start"
    /\ pc' = "done"
    /\ trace' = Append(trace, Ev("fetch_raises", 0, 0))
    /\ returned' = EnumerationFailure(ErrDb)
    /\ UNCHANGED <<va, qb, remaining_exams, exit_code, args, pl, runner, store, config, run, hist, qcount, exam_overviews, total_exams,
                   i, attempt, existing_count, last_error, results, completed,
                   skipped, failed, total_questions_generated>>

\* line 110: `existing_count > 0`
BasicShouldSkip(cfg, count) == count > 0

BasicSkippedResult(o, count) ==
    [exam_overview_id |-> o.exam_overview_id, status |-> "skipped",
     questions_before |-> count, questions_after |-> count,
     questions_generated |-> 0, error |-> None]

BasicCompletedResult(o, before, final) ==
    [exam_overview_id |-> o.exam_overview_id, status |-> "completed",
     questions_before |-> before, questions_after |-> final,
     questions_generated |-> final - before, error |-> None]

BasicFailedResult(o, before, err) ==
    [exam_overview_id |-> o.exam_overview_id, status |-> "failed",
     questions_before |-> before, questions_after |-> before,
     questions_generated |-> 0, error |-> err]

\* lines 202-211: append the result, update the counters, continue the loop
BasicLoopBody(result, tr) ==
    /\ results' = AppendResult(results, result)
    /\ completed' = IF result.status = "completed" THEN completed + 1
                    ELSE completed
    /\ total_questions_generated' =
           IF result.status = "completed"
           THEN total_questions_generated + result.questions_generated
           ELSE total_questions_generated
    /\ skipped' = IF result.status = "skipped" THEN skipped + 1 ELSE skipped
    /\ failed' = IF result.status \notin {"completed", "skipped"}
                 THEN failed + 1 ELSE failed
    /\ trace' = tr
    /\ NextItem

\* line 109 raising: nothing catches it, it leaves run_batch_pipeline
BasicQueryBeforeRaises ==
    /\ runner = "basic" /\ pc = "item"
    /\ trace' = Append(trace, Ev("query_before", i, 0))
    /\ pc' = "done"
    /\ returned' = Raise(ErrCount)
    /\ UNCHANGED <<va, qb, remaining_exams, exit_code, args, pl, runner, store, config, run, hist, qcount, exam_overviews, total_exams,
                   i, attempt, existing_count, last_error, results, completed,
                   skipped, failed, total_questions_generated>>

\* lines 109-122
BasicSkip ==
    /\ runner = "basic" /\ pc = "item"
    /\ LET count == qcount[CurrentExam.exam_overview_id]
       IN  /\ BasicShouldSkip(config, count)
           /\ existing_count' = count
           /\ BasicLoopBody(BasicSkippedResult(CurrentExam, count),
                            Append(trace, Ev("query_before", i, 0)))
    /\ UNCHANGED <<va, qb, remaining_exams, exit_code, args, pl, runner, store, config, run, hist, qcount, exam_overviews, total_exams,
                   attempt, last_error, returned>>

\* lines 109-151: run_pipeline returns and the final count is read
BasicCompletes ==
    /\ runner = "basic" /\ pc = "item"
    /\ LET count == qcount[CurrentExam.exam_overview_id]
       IN  /\ ~BasicShouldSkip(config, count)
           /\ existing_count' = count
           /\ \E out \in PipelineOutcomes :
                /\ ~out.raised
                /\ qcount' = out.qcount
                /\ BasicLoopBody(
                       BasicCompletedResult(CurrentExam, count,
                           out.qcount[CurrentExam.exam_overview_id]),
                       trace \o <<Ev("query_before", i, 0),
                                  Ev("run_pipeline", i, 0)>>)
    /\ UNCHANGED <<va, qb, remaining_exams, exit_code, args, pl, runner, store, config, run, hist, exam_overviews, total_exams, attempt,
                   last_error, returned>>

\* lines 128-131, 153-170: run_pipeline or the final count query raises
BasicFails ==
    /\ runner = "basic" /\ pc = "item"
    /\ LET count == qcount[CurrentExam.exam_overview_id]
       IN  /\ ~BasicShouldSkip(config, count)
           /\ existing_count' = count
           /\ \E out \in PipelineOutcomes :
                /\ qcount' = out.qcount
                /\ BasicLoopBody(
                       BasicFailedResult(CurrentExam, count,
                           IF out.raised THEN out.error ELSE ErrCount),
                       trace \o <<Ev("query_before", i, 0),
                                  Ev("run_pipeline", i, 0)>>)
    /\ UNCHANGED <<va, qb, remaining_exams, exit_code, args, pl, runner, store, config, run, hist, exam_overviews, total_exams, attempt,
                   last_error, returned>>

\* lines 213-234
BasicSummary ==
    /\ runner = "basic" /\ pc = "summary"
    /\ trace' = Append(trace, Ev("summary", total_exams, 0))
    /\ returned' = ReturnList(results)
    /\ pc' = "done"
    /\ UNCHANGED <<va, qb, remaining_exams, exit_code, args, pl, runner, store, config, run, hist, qcount, exam_overviews, total_exams,
                   i, attempt, existing_count, last_error, results, completed,
                   skipped, failed, total_questions_generated>>

----------------------------------------------------------------------------

Next ==
    \/ Fetch
    \/ FetchFails
    \/ QueryBeforeRaises
    \/ SkipExisting
    \/ StartProcessing
    \/ AttemptCompletes
    \/ AttemptCountFails
    \/ AttemptRaises
    \/ Summary
    \/ BasicFetch
    \/ BasicFetchFails
    \/ BasicQueryBeforeRaises
    \/ BasicSkip
    \/ BasicCompletes
    \/ BasicFails
    \/ BasicSummary

Spec == Init /\ [][Next]_vars

----------------------------------------------------------------------------
(* get_filtered_exam_overviews alone, over every combination of filters *)

ExamFilters ==
    {NoneOpt, Some(<<>>), Some(<<"IMO">>), Some(<<"IEO">>),
     Some(<<"IMO", "IEO">>), Some(<<"NSO">>)}

GradeFilters == {NoneOpt, Some(<<>>), Some(<<6>>), Some(<<12>>), Some(<<6, 12>>)}

LevelFilters == {NoneOpt, Some(<<>>), Some(<<1>>), Some(<<2>>)}

FilterConfigs ==
    { [DefaultConfig EXCEPT !.exam_filter = ef, !.grade_filter = gf,
                            !.level_filter = lf]
      : ef \in ExamFilters, gf \in GradeFilters, lf \in LevelFilters }

InitFilter ==
    /\ store \in SUBSET Overviews
    /\ qcount = [id \in OverviewIds |-> 0]
    /\ runner = "enhanced"
    /\ config \in FilterConfigs
    /\ run = 1
    /\ va = NoVisual
    /\ qb = NoBatch
    /\ args = NoArgs
    /\ pl = NoPipeline
    /\ ZeroState

NextFilter == Fetch

SpecFilter == InitFilter /\ [][NextFilter]_vars

----------------------------------------------------------------------------
(* The batch run a second time, with the same config, over the store the   *)
(* first run left behind (no other writer)                                  *)

TwiceConfigs ==
    { [DefaultConfig EXCEPT !.skip_existing = TRUE, !.delay_between_exams = 0,
                            !.max_retries = r, !.continue_on_error = ce]
      : r \in 0..MaxRetries, ce \in BOOLEAN }

InitTwice ==
    /\ InitStore
    /\ runner = "enhanced"
    /\ config \in TwiceConfigs
    /\ run = 1
    /\ va = NoVisual
    /\ qb = NoBatch
    /\ args = NoArgs
    /\ pl = NoPipeline
    /\ ZeroState

\* the first run returned a result for every item and none of them is
\* 'failed': the operator starts run_enhanced_batch_pipeline(config) again
SecondRun ==
    /\ runner = "enhanced" /\ run = 1 /\ pc = "done"
    /\ returned.kind = "list"
    /\ Len(results) = total_exams
    /\ \A k \in 1..Len(results) : results[k].status # "failed"
    /\ run' = 2
    /\ pc' = "start"
    /\ exam_overviews' = <<>>
    /\ total_exams' = 0
    /\ i' = 0
    /\ attempt' = 0
    /\ existing_count' = 0
    /\ last_error' = None
    /\ results' = <<>>
    /\ completed' = 0
    /\ skipped' = 0
    /\ failed' = 0
    /\ total_questions_generated' = 0
    /\ returned' = Pending
    /\ trace' = <<>>
    /\ hist' = NoHist
    /\ UNCHANGED <<va, qb, remaining_exams, exit_code, args, pl, runner, store, config, qcount>>

NextTwice ==
    \/ Fetch
    \/ QueryBeforeRaises
    \/ SkipExisting
    \/ StartProcessing
    \/ AttemptCompletes
    \/ AttemptCountFails
    \/ AttemptRaises
    \/ Summary
    \/ SecondRun

SpecTwice == InitTwice /\ [][NextTwice]_vars

----------------------------------------------------------------------------
(* One item followed through run_pipeline step by step (simple_pipeline.py, *)
(* agent_definition.py), with the questions table row by row.  pl.table is  *)
(* the questions table; the call field of a row is 0 for a row that was     *)
(* there before the run and the number of the run_pipeline call that wrote  *)
(* it otherwise.  pl.log has one entry per question save_questions_to_db    *)
(* went through in the current call.                                        *)

\* variant: the duplicate check comparing the texts as they are
ExistingRows_CaseSensitive(table, text) ==
    {k \in 1..Len(table) : table[k].question_text = text}

\* lines 98-102: rows with LOWER(question_text) = LOWER(:question_text)
ExistingRows(table, text) ==
    {k \in 1..Len(table) : Lower(table[k].question_text) = Lower(text)}

\* variant: insertIfNotDuplicate
InsertQuestion_IfNotDuplicate(table, text, existing, call) ==
    IF existing = {} THEN Append(table, [question_text |-> text, call |-> call])
    ELSE table

\* lines 103-134: the notice on existing rows changes nothing, the INSERT is
\* executed in either case
InsertQuestion(table, text, existing, call) ==
    Append(table, [question_text |-> text, call |-> call])

\* lines 96-144: one pass of the loop body for question `text`, the pos-th of
\* section sec; st is [table, log, saved_count]; when `fails` the INSERT
\* raises, the except at 142-144 prints the error and the loop continues
SaveOne(st, text, fails, sec, pos, call) ==
    LET existing == ExistingRows(st.table, text)
        table2 == IF fails THEN st.table
                  ELSE InsertQuestion(st.table, text, existing, call)
        count2 == IF fails THEN st.saved_count ELSE st.saved_count + 1
        entry == [section |-> sec, pos |-> pos, question_text |-> text,
                  seen |-> {Lower(st.table[k].question_text)
                            : k \in 1..Len(st.table)},
                  notice |-> existing # {},
                  failed |-> fails,
                  inserted |-> Len(table2) = Len(st.table) + 1
                               /\ table2[Len(table2)].question_text = text,
                  kept |-> SubSeq(table2, 1, Len(st.table)) = st.table,
                  counted |-> count2 = st.saved_count + 1]
    IN  [table |-> table2, log |-> Append(st.log, entry),
         saved_count |-> count2]

\* lines 95-144: the for loop from question k on
RECURSIVE SaveLoop(_, _, _, _, _, _)
SaveLoop(questions, k, errs, st, sec, call) ==
    IF k > Len(questions) THEN st
    ELSE SaveLoop(questions, k + 1, errs,
                  SaveOne(st, questions[k], k \in errs, sec, k, call),
                  sec, call)

\* what generate_questions_with_agent hands back for one section: the
\* validated questions of the batch, or, when the agent call raised,
\* {"questions": []} (agent_definition.py lines 96-98)
GenFailed == [raised |-> TRUE, questions |-> <<>>]

GenOutcomes ==
    {GenFailed} \cup
    {[raised |-> FALSE, questions |-> q]
     : q \in UNION {[1..n -> QuestionTexts] : n \in 0..MaxQuestions}}

SumLen(f) ==
    LET RECURSIVE Sum(_)
        Sum(k) == IF k = 0 THEN 0 ELSE Len(f[k].questions) + Sum(k - 1)
    IN  Sum(Len(f))


\* run_pipeline(exam, grade, level) is about to be called for row `o`
StartCall(o, table, call, err) ==
    [pc |-> "fetch", exam |-> o, exam_overview_id |-> 0, section_data |-> <<>>,
     results |-> <<>>, next |-> 1, total_saved |-> 0, table |-> table,
     log |-> <<>>, error |-> err, call |-> call, status |-> "running"]

\* the questions table before the run: at most MaxInit rows
InitTables ==
    UNION {[1..n -> {[question_text |-> t, call |-> 0] : t \in QuestionTexts}]
           : n \in 0..MaxInit}

PipelineConfigs ==
    {[DefaultConfig EXCEPT !.max_retries = r] : r \in 0..MaxRetries}

\* a row whose exam name differs from that of IMO grade 6 level 1 in letter
\* case only (no constraint of the schema used by the queries excludes it)
CaseTwin ==
    [exam_overview_id |-> 4, exam |-> "imo", grade |-> 6, level |-> 1,
     total_questions |-> 3]

\* the item is a row the enumeration returned; at the call its row is in
\* the exam_overview table, or was deleted in between, or the table also
\* holds the row differing in case
InitPipeline ==
    /\ qcount = [id \in OverviewIds |-> 0]
    /\ runner = "pipeline"
    /\ config \in PipelineConfigs
    /\ run = 1
    /\ va = NoVisual
    /\ qb = NoBatch
    /\ args = NoArgs
    /\ \E o \in Overviews, t \in InitTables :
         /\ store \in {Overviews, Overviews \ {o}, Overviews \cup {CaseTwin}}
         /\ pl = StartCall(o, t, 1, None)
    /\ ZeroState

PipelineUnchanged ==
    UNCHANGED <<runner, store, config, qcount, pc, exam_overviews, total_exams,
                i, attempt, existing_count, last_error, results, completed,
                skipped, failed, total_questions_generated, returned, trace,
                run, hist, args, remaining_exams, exit_code, va, qb>>

\* line 176: fetch_exam_overview_id returns an id or raises ValueError
PFetchExamId ==
    /\ pl.pc = "fetch"
    /\ LET ids == fetch_exam_overview_id(store, pl.exam.exam, pl.exam.grade,
                                         pl.exam.level)
       IN  IF ids = {}
           THEN pl' = [pl EXCEPT !.pc = "raised", !.error = ErrNoExam]
           ELSE \E id \in ids :
                    pl' = [pl EXCEPT !.pc = "sections", !.exam_overview_id = id]
    /\ PipelineUnchanged

\* lines 176-179: a query of run_pipeline raises, the store cannot be reached
PQueryRaises ==
    /\ pl.pc \in {"fetch", "sections"}
    /\ pl' = [pl EXCEPT !.pc = "raised", !.error = ErrDb]
    /\ PipelineUnchanged

\* lines 179-206: the sections are read; with no section run_pipeline prints
\* an error and returns (181-183); otherwise the questions of every section
\* are generated (gather), a failed generation yielding no question
PGetSectionsAndGenerate ==
    /\ pl.pc = "sections"
    /\ LET n == Sections(pl.exam_overview_id)
       IN  IF n = 0
           THEN pl' = [pl EXCEPT !.pc = "returned"]
           ELSE \E outs \in [1..n -> GenOutcomes] :
                   /\ Len(pl.table) + SumLen(outs) <= MaxRows
                   /\ pl' = [pl EXCEPT !.pc = "save",
                                       !.section_data = [k \in 1..n |-> k],
                                       !.results = outs]
    /\ PipelineUnchanged

\* lines 212-215 with save_questions_to_db (88-149) for the next section:
\* the INSERTs of the questions at positions errs raise, the commit succeeds
PSaveSection ==
    /\ pl.pc = "save" /\ pl.next <= Len(pl.section_data)
    /\ LET questions == pl.results[pl.next].questions
       IN  \E errs \in SUBSET (1..Len(questions)) :
              LET st == SaveLoop(questions, 1, errs,
                                 [table |-> pl.table, log |-> pl.log,
                                  saved_count |-> 0],
                                 pl.next, pl.call)
              IN  pl' = [pl EXCEPT !.table = st.table, !.log = st.log,
                                   !.total_saved = @ + st.saved_count,
                                   !.next = @ + 1]
    /\ PipelineUnchanged

\* line 146 raising: the rows of the section are not committed and the
\* exception leaves save_questions_to_db and run_pipeline
PCommitRaises ==
    /\ pl.pc = "save" /\ pl.next <= Len(pl.section_data)
    /\ LET questions == pl.results[pl.next].questions
       IN  /\ Len(questions) > 0
           /\ \E errs \in SUBSET (1..Len(questions)) :
                LET st == SaveLoop(questions, 1, errs,
                                   [table |-> pl.table, log |-> pl.log,
                                    saved_count |-> 0],
                                   pl.next, pl.call)
                IN  pl' = [pl EXCEPT !.log = st.log, !.pc = "raised",
                                     !.error = ErrCommit]
    /\ PipelineUnchanged

\* lines 217-221: every section went through save_questions_to_db
PReturn ==
    /\ pl.pc = "save" /\ pl.next > Len(pl.section_data)
    /\ pl' = [pl EXCEPT !.pc = "returned"]
    /\ PipelineUnchanged

\* enhanced_batch_pipeline.py lines 162-185: run_pipeline returned, the item
\* is reported 'completed' (the count read at 165 succeeding)
PItemCompleted ==
    /\ pl.pc = "returned" /\ pl.status = "running"
    /\ pl' = [pl EXCEPT !.status = "completed"]
    /\ PipelineUnchanged

\* enhanced_batch_pipeline.py lines 157-162, 187-192: run_pipeline raised and
\* an attempt is left, run_pipeline is called again
PRetry ==
    /\ pl.pc = "raised" /\ pl.status = "running"
    /\ pl.call \in RetryRange(config)
    /\ pl' = StartCall(pl.exam, pl.table, pl.call + 1, pl.error)
    /\ PipelineUnchanged

\* enhanced_batch_pipeline.py lines 194-209: no attempt is left
PItemFailed ==
    /\ pl.pc = "raised" /\ pl.status = "running"
    /\ pl.call \notin RetryRange(config)
    /\ pl' = [pl EXCEPT !.status = "failed"]
    /\ PipelineUnchanged

NextPipeline ==
    \/ PFetchExamId
    \/ PQueryRaises
    \/ PGetSectionsAndGenerate
    \/ PSaveSection
    \/ PCommitRaises
    \/ PReturn
    \/ PItemCompleted
    \/ PRetry
    \/ PItemFailed

SpecPipeline == InitPipeline /\ [][NextPipeline]_vars

----------------------------------------------------------------------------
(* The command line: run_batch.py main() with the preset configurations of  *)
(* batch_config.py, up to the enumeration of the work items                 *)

TEST_CONFIG == [DefaultConfig EXCEPT !.max_exams = Some(3)]

PRODUCTION_CONFIG == [DefaultConfig EXCEPT !.delay_between_exams = 2]

IMO_ONLY_CONFIG == [DefaultConfig EXCEPT !.exam_filter = Some(<<"IMO">>)]

GRADE_6_ONLY_CONFIG == [DefaultConfig EXCEPT !.grade_filter = Some(<<12>>)]

Modes == {"test", "production", "imo", "grade6", "custom"}

\* what argparse can hand back: --max-exams and --retries are any int,
\* --delay any float, the filters a non-empty list or None; absent options
\* take the defaults of lines 28-39
ParsedArgs ==
    [mode : Modes,
     max_exams : MaxExamsValues,
     exam : {NoneOpt, Some(<<"IMO">>)},
     grade : {NoneOpt, Some(<<6>>)},
     level : {NoneOpt, Some(<<1>>)},
     skip_existing : BOOLEAN,
     delay : {-1} \cup Delays,
     retries : (-1..MaxRetries) \cup {DefaultConfig.max_retries}]

\* lines 64-73: the BatchConfig of mode custom
CustomConfig(a) ==
    [DefaultConfig EXCEPT !.max_exams = a.max_exams,
                          !.exam_filter = a.exam,
                          !.grade_filter = a.grade,
                          !.level_filter = a.level,
                          !.skip_existing = a.skip_existing,
                          !.delay_between_exams = a.delay,
                          !.max_retries = a.retries]

\* lines 54-74 with the convenience functions of enhanced_batch_pipeline.py
\* (301-317): the config run_enhanced_batch_pipeline is called with
ModeConfig(a) ==
    CASE a.mode = "test"       -> TEST_CONFIG
      [] a.mode = "production" -> PRODUCTION_CONFIG
      [] a.mode = "imo"        -> IMO_ONLY_CONFIG
      [] a.mode = "grade6"     -> GRADE_6_ONLY_CONFIG
      [] a.mode = "custom"     -> CustomConfig(a)

InitCli ==
    /\ store \in SUBSET Overviews
    /\ qcount = [id \in OverviewIds |-> 0]
    /\ runner = "enhanced"
    /\ args \in ParsedArgs
    /\ config = DefaultConfig
    /\ run = 1
    /\ va = NoVisual
    /\ qb = NoBatch
    /\ pl = NoPipeline
    /\ pc = "cli"
    /\ ZeroLocals

\* lines 43-74: the banner is printed from args, then the runner is called
\* with the config of the mode
Main ==
    /\ pc = "cli"
    /\ trace' = Append(trace, Ev("banner", 0, 0))
    /\ config' = ModeConfig(args)
    /\ pc' = "start"
    /\ UNCHANGED <<va, qb, remaining_exams, exit_code, args, pl, runner, store, run, hist, qcount, exam_overviews,
                   total_exams, i, attempt, existing_count, last_error,
                   results, completed, skipped, failed,
                   total_questions_generated, returned>>

NextCli ==
    \/ Main
    \/ Fetch

SpecCli == InitCli /\ [][NextCli]_vars

----------------------------------------------------------------------------
(* The command line, from main() to the exit of the process.  The options   *)
(* that change nothing in the preset modes are left at their defaults, and  *)
(* the filters and the delay are left out.                                  *)

CliRunArgs ==
    {a \in ParsedArgs :
        /\ a.exam = NoneOpt /\ a.grade = NoneOpt /\ a.level = NoneOpt
        /\ a.delay = 0
        /\ IF a.mode = "custom"
           THEN a.retries # DefaultConfig.max_retries
           ELSE /\ a.max_exams = NoneOpt /\ ~a.skip_existing
                /\ a.retries = DefaultConfig.max_retries}

InitCliRun ==
    /\ InitStore
    /\ runner = "enhanced"
    /\ args \in CliRunArgs
    /\ config = DefaultConfig
    /\ run = 1
    /\ va = NoVisual
    /\ qb = NoBatch
    /\ pl = NoPipeline
    /\ pc = "cli"
    /\ ZeroLocals

\* variant: a non-zero status also when an item ended 'failed'
ExitCode_FailedItems(ret) ==
    IF ret.kind = "raised"
          \/ \E k \in 1..Len(ret.v) : ret.v[k].status = "failed"
    THEN 1 ELSE 0

\* lines 80-85: an Exception is printed and raised again, it leaves
\* asyncio.run and the interpreter exits with status 1; otherwise main
\* returns and the status is 0
ExitCode(ret) == IF ret.kind = "raised" THEN 1 ELSE 0

\* lines 76-85: the end of main() after the awaited runner returned or raised
MainEnds ==
    /\ args # NoArgs /\ pc = "done"
    /\ trace' = Append(trace, IF returned.kind = "raised"
                              THEN Ev("print_failed", 0, 0)
                              ELSE Ev("print_success", 0, 0))
    /\ exit_code' = ExitCode(returned)
    /\ pc' = "exited"
    /\ UNCHANGED <<va, qb, remaining_exams, args, pl, runner, store, config,
                   run, hist, qcount, exam_overviews, total_exams, i, attempt,
                   existing_count, last_error, results, completed, skipped,
                   failed, total_questions_generated, returned>>

NextCliRun ==
    \/ Main
    \/ Fetch
    \/ FetchFails
    \/ QueryBeforeRaises
    \/ SkipExisting
    \/ StartProcessing
    \/ AttemptCompletes
    \/ AttemptCountFails
    \/ AttemptRaises
    \/ Summary
    \/ MainEnds

SpecCliRun == InitCliRun /\ [][NextCliRun]_vars

----------------------------------------------------------------------------
(* run_batch_pipeline_with_resume (batch_pipeline.py lines 236-264).  The   *)
(* value run_batch_pipeline hands back (`returned`) is dropped by it.       *)

\* lines 249-255: the exams for which check_exam_has_questions is false
RemainingExams(lst, qc) ==
    SelectSeq(lst, LAMBDA o : qc[o.exam_overview_id] = 0)

\* line 264: the arguments of the call of run_batch_pipeline
ResumeConfig(remaining) ==
    [DefaultConfig EXCEPT !.skip_existing = FALSE,
                          !.max_exams = Some(Len(remaining))]

InitResume ==
    /\ InitStore
    /\ runner = "basic"
    /\ config = DefaultConfig
    /\ run = 1
    /\ va = NoVisual
    /\ qb = NoBatch
    /\ args = NoArgs
    /\ pl = NoPipeline
    /\ pc = "resume"
    /\ ZeroLocals

\* lines 242-264: enumerate, keep the exams without questions, return when
\* there is none, otherwise call run_batch_pipeline
Resume ==
    /\ runner = "basic" /\ pc = "resume"
    /\ LET all == get_all_exam_overviews(store)
           remaining == RemainingExams(all, qcount)
       IN  IF all = <<>>
           THEN /\ trace' = Append(trace, Ev("log_no_overviews", 0, 0))
                /\ returned' = ReturnNone
                /\ pc' = "done"
                /\ UNCHANGED <<remaining_exams, config>>
           ELSE IF remaining = <<>>
           THEN /\ trace' = Append(trace, Ev("log_all_have_questions", 0, 0))
                /\ returned' = ReturnNone
                /\ pc' = "done"
                /\ remaining_exams' = remaining
                /\ UNCHANGED config
           ELSE /\ remaining_exams' = remaining
                /\ config' = ResumeConfig(remaining)
                /\ pc' = "start"
                /\ UNCHANGED <<trace, returned>>
    /\ UNCHANGED <<va, qb, exit_code, args, pl, runner, store, run, hist,
                   qcount, exam_overviews, total_exams, i, attempt,
                   existing_count, last_error, results, completed, skipped,
                   failed, total_questions_generated>>

\* lines 242-254 raising: a query of the resume scan fails
ResumeQueryRaises ==
    /\ runner = "basic" /\ pc = "resume"
    /\ trace' = Append(trace, Ev("fetch_raises", 0, 0))
    /\ returned' = Raise(ErrDb)
    /\ pc' = "done"
    /\ UNCHANGED <<va, qb, remaining_exams, exit_code, args, pl, runner, store,
                   config, run, hist, qcount, exam_overviews, total_exams, i,
                   attempt, existing_count, last_error, results, completed,
                   skipped, failed, total_questions_generated>>

NextResume ==
    \/ Resume
    \/ ResumeQueryRaises
    \/ BasicFetch
    \/ BasicFetchFails
    \/ BasicQueryBeforeRaises
    \/ BasicSkip
    \/ BasicCompletes
    \/ BasicFails
    \/ BasicSummary

SpecResume == InitResume /\ [][NextResume]_vars

----------------------------------------------------------------------------
(* question_visual_agent: analyze_questions_by_grade over a thread pool.    *)
(* va.task[k] is the position of the call analyze_question(question_ids[k]) *)
(* inside its worker thread; va.rows are the question ids with a row        *)
(* committed to question_visual_prompts by this call.                       *)

ErrWorkers == "ValueError: max_workers must be greater than 0"

ErrAnalysis == "Exception: analysis failed"

RECURSIVE fetch_questions_by_grade(_)
\* database.py lines 40-58: SELECT DISTINCT question_id ... ORDER BY question_id
fetch_questions_by_grade(ids) ==
    IF ids = {} THEN <<>>
    ELSE LET m == CHOOSE x \in ids : \A y \in ids : x <= y
         IN  <<m>> \o fetch_questions_by_grade(ids \ {m})

\* the call analyze_questions_by_grade(grade, max_workers) over a questions
\* table whose active questions of the grade are `ids`
VisualCall(ids, w) ==
    [pc |-> "call", stored |-> ids, max_workers |-> w, question_ids |-> <<>>,
     task |-> <<>>, next |-> 1, results |-> <<>>, rows |-> {},
     successful |-> 0, errors |-> 0, returned |-> Pending]

InitVisual ==
    /\ store = Overviews
    /\ qcount = [id \in OverviewIds |-> 0]
    /\ runner = "visual"
    /\ config = DefaultConfig
    /\ run = 1
    /\ qb = NoBatch
    /\ args = NoArgs
    /\ pl = NoPipeline
    /\ \E ids \in SUBSET (1..MaxQuestionIds), w \in 0..MaxWorkers :
         va = VisualCall(ids, w)
    /\ ZeroState

VisualUnchanged ==
    UNCHANGED <<runner, store, config, qcount, pc, exam_overviews, total_exams,
                i, attempt, existing_count, last_error, results, completed,
                skipped, failed, total_questions_generated, returned, trace,
                run, hist, args, remaining_exams, exit_code, pl, qb>>

\* the ways a call of analyze_question has ended
Finished == {"notfound", "raised", "saved", "unsaved"}

Running(task) ==
    {k \in 1..Len(task) : task[k] \notin Finished \cup {"queued"}}

\* agent.py lines 270-286: the ids are fetched; an empty list returns [],
\* ThreadPoolExecutor refuses max_workers <= 0, otherwise one call per id is
\* submitted to the pool
AnalyzeByGrade ==
    /\ va.pc = "call"
    /\ LET ids == fetch_questions_by_grade(va.stored)
       IN  va' = IF ids = <<>>
                 THEN [va EXCEPT !.pc = "returned",
                                 !.returned = ReturnList(<<>>)]
                 ELSE IF va.max_workers <= 0
                      THEN [va EXCEPT !.pc = "returned", !.question_ids = ids,
                                      !.returned = Raise(ErrWorkers)]
                      ELSE [va EXCEPT !.pc = "pool", !.question_ids = ids,
                                      !.task = [k \in 1..Len(ids) |-> "queued"]]
    /\ VisualUnchanged

\* agent.py line 270, database.py lines 42-57: the query of the ids raises
FetchIdsRaises ==
    /\ va.pc = "call"
    /\ va' = [va EXCEPT !.pc = "returned", !.returned = Raise(ErrDb)]
    /\ VisualUnchanged

\* a free worker thread takes the oldest queued call
WorkerTakes(k) ==
    /\ va.pc = "pool"
    /\ va.task[k] = "queued"
    /\ \A j \in 1..(k - 1) : va.task[j] # "queued"
    /\ Cardinality(Running(va.task)) < va.max_workers
    /\ va' = [va EXCEPT !.task[k] = "fetching"]
    /\ VisualUnchanged

\* agent.py lines 17-20: fetch_question returns the row, returns nothing
\* (the call returns {"error": "Question not found"}) or raises
WorkerFetches(k) ==
    /\ va.pc = "pool"
    /\ va.task[k] = "fetching"
    /\ \E t \in {"analysing", "notfound", "raised"} :
         va' = [va EXCEPT !.task[k] = t]
    /\ VisualUnchanged

\* agent.py lines 211-250: the OpenAI call, json.loads, the token log and
\* validate_prompts succeed, or one of them raises
WorkerAnalyses(k) ==
    /\ va.pc = "pool"
    /\ va.task[k] = "analysing"
    /\ \E t \in {"saving", "raised"} : va' = [va EXCEPT !.task[k] = t]
    /\ VisualUnchanged

\* agent.py lines 254-256, database.py lines 60-97: get_db raises (line 62,
\* outside the try), or the INSERT raises, is rolled back and None is
\* returned and dropped by the caller, or the row is committed; in the last
\* two cases analyze_question returns the analysis
WorkerSaves(k) ==
    /\ va.pc = "pool"
    /\ va.task[k] = "saving"
    /\ \/ va' = [va EXCEPT !.task[k] = "raised"]
       \/ va' = [va EXCEPT !.task[k] = "unsaved"]
       \/ va' = [va EXCEPT !.task[k] = "saved",
                           !.rows = @ \cup {va.question_ids[k]}]
    /\ VisualUnchanged

\* the dictionary the main thread gets for future k; error = None stands for
\* a dictionary without the key 'error'
VisualResult(qid, k, outcome) ==
    CASE outcome = "raised" ->
           [future |-> k, question_id |-> qid, error |-> ErrAnalysis]
      [] outcome = "notfound" ->
           [future |-> k, question_id |-> None, error |-> "Question not found"]
      [] OTHER -> [future |-> k, question_id |-> qid, error |-> None]

\* variant: a future that raised leaves no entry
Collected_DropRaised(res, qid, k, outcome) ==
    IF outcome = "raised" THEN res
    ELSE Append(res, VisualResult(qid, k, outcome))

\* agent.py lines 290-298: results.append of the returned dictionary, or of
\* {"question_id": qid, "error": str(e)} when future.result() raised
Collected(res, qid, k, outcome) == Append(res, VisualResult(qid, k, outcome))

\* agent.py lines 289-298: the main thread waits for the futures in the order
\* of submission
Collect ==
    /\ va.pc = "pool"
    /\ va.next <= Len(va.question_ids)
    /\ va.task[va.next] \in Finished
    /\ va' = [va EXCEPT !.results = Collected(@, va.question_ids[va.next],
                                              va.next, va.task[va.next]),
                        !.next = @ + 1]
    /\ VisualUnchanged

\* agent.py line 306: [r for r in results if 'error' not in r]
Successful(res) == SelectSeq(res, LAMBDA r : r.error = None)

\* agent.py lines 300-314: the pool is shut down, the summary is printed and
\* the list is returned
VisualSummary ==
    /\ va.pc = "pool"
    /\ va.next > Len(va.question_ids)
    /\ va' = [va EXCEPT !.pc = "returned",
                        !.successful = Len(Successful(va.results)),
                        !.errors = Len(va.results) - Len(Successful(va.results)),
                        !.returned = ReturnList(va.results)]
    /\ VisualUnchanged

NextVisual ==
    \/ AnalyzeByGrade
    \/ FetchIdsRaises
    \/ \E k \in 1..Len(va.task) : WorkerTakes(k)
    \/ \E k \in 1..Len(va.task) : WorkerFetches(k)
    \/ \E k \in 1..Len(va.task) : WorkerAnalyses(k)
    \/ \E k \in 1..Len(va.task) : WorkerSaves(k)
    \/ Collect
    \/ VisualSummary

SpecVisual == InitVisual /\ [][NextVisual]_vars

----------------------------------------------------------------------------
(* schemas.py: the validation of a QuestionBatch.  The inputs are well      *)
(* typed (texts long enough, keys and difficulties legal), so the only      *)
(* ValidationError left is the one of an empty list.                        *)

Whitespace == {" ", "\t", "\n"}

RECURSIVE lstrip(_)
lstrip(t) ==
    IF Len(t) > 0 /\ SubSeq(t, 1, 1) \in Whitespace
    THEN lstrip(SubSeq(t, 2, Len(t))) ELSE t

RECURSIVE rstrip(_)
rstrip(t) ==
    IF Len(t) > 0 /\ SubSeq(t, Len(t), Len(t)) \in Whitespace
    THEN rstrip(SubSeq(t, 1, Len(t) - 1)) ELSE t

\* variant: the options are compared as given
strip_Identity(t) == t

\* str.strip()
strip(t) == rstrip(lstrip(t))

\* line 23
banned ==
    {"All of the above", "None of the above", "All of these", "None of these"}

\* lines 20-27: the flag _valid after QuestionItem.validate_options
validate_options(q) ==
    LET opts == <<strip(q.option_a), strip(q.option_b), strip(q.option_c),
                  strip(q.option_d)>>
    IN  IF Cardinality(Range(opts)) # 4 \/ \E k \in 1..4 : opts[k] \in banned
        THEN [q EXCEPT !._valid = FALSE]
        ELSE q

\* lines 29-46: QuestionBatch.filter_invalid_questions over validated items
filter_invalid_questions(items) ==
    LET valid == SelectSeq(items, LAMBDA q : q._valid)
    IN  [validated |-> TRUE, error |-> None, questions |-> valid,
         skipped_count |-> Len(items) - Len(valid)]

ErrValidation == "ValidationError: List should have at least 1 item"

\* distinct question texts, one per position of the input
QuestionTexts30 ==
    <<"What is 3 + 4?", "What is 14 / 2?", "What is 21 / 3?",
      "What is 10 - 3?">>

\* the question a model may hand back at position k of its batch
RawQuestions(k) ==
    {[question_text |-> QuestionTexts30[k], option_a |-> a, option_b |-> b,
      option_c |-> c, option_d |-> d, _valid |-> TRUE] :
        a \in {"7", " 7"}, b \in {"7", "8", "7 "},
        c \in {"9", "All of the above", "all of the above",
               " None of these\n", "All of these"},
        d \in {"10", "9"}}

RECURSIVE RawBatches(_)
\* the lists of n questions a model may hand back
RawBatches(n) ==
    IF n = 0 THEN {<<>>}
    ELSE {Append(b, q) : b \in RawBatches(n - 1), q \in RawQuestions(n)}

InitSchema ==
    /\ store = Overviews
    /\ qcount = [id \in OverviewIds |-> 0]
    /\ runner = "schema"
    /\ config = DefaultConfig
    /\ run = 1
    /\ va = NoVisual
    /\ args = NoArgs
    /\ pl = NoPipeline
    /\ \E n \in 0..MaxBatch : \E b \in RawBatches(n) :
         qb = [validated |-> FALSE, error |-> None, input |-> b,
               questions |-> <<>>, skipped_count |-> 0]
    /\ ZeroState

SchemaUnchanged ==
    UNCHANGED <<runner, store, config, qcount, pc, exam_overviews, total_exams,
                i, attempt, existing_count, last_error, results, completed,
                skipped, failed, total_questions_generated, returned, trace,
                run, hist, args, remaining_exams, exit_code, pl, va>>

\* QuestionBatch.model_validate: every item is validated (lines 20-27), then
\* the batch (lines 29-46)
ValidateBatch ==
    /\ ~qb.validated /\ qb.error = None
    /\ Len(qb.input) >= 1
    /\ LET items == [k \in 1..Len(qb.input) |-> validate_options(qb.input[k])]
       IN  qb' = [input |-> qb.input] @@ filter_invalid_questions(items)
    /\ SchemaUnchanged

\* line 30: min_length=1 rejects the empty list before the filter runs
ValidateRejects ==
    /\ ~qb.validated /\ qb.error = None
    /\ Len(qb.input) < 1
    /\ qb' = [qb EXCEPT !.error = ErrValidation]
    /\ SchemaUnchanged

NextSchema == ValidateBatch \/ ValidateRejects

SpecSchema == InitSchema /\ [][NextSchema]_vars

----------------------------------------------------------------------------
(* Helpers of the properties *)

TypeOK ==
    /\ pc \in {"start", "item", "attempt", "summary", "done"}
    /\ Len(results) <= total_exams

\* positions of the trace holding event `name` of item j
Events(name, j) ==
    {k \in 1..Len(trace) : trace[k].ev = name /\ trace[k].item = j}

\* positions of the results of item j of the list
ResultsOf(j) ==
    {k \in 1..Len(results) :
        results[k].exam_overview_id = exam_overviews[j].exam_overview_id}

\* index in the list of the item result k belongs to
ItemOf(k) ==
    CHOOSE j \in 1..Len(exam_overviews) :
        exam_overviews[j].exam_overview_id = results[k].exam_overview_id

\* the enumeration of the work items raised
FetchFailed == Events("fetch_raises", 0) # {}

\* the list of work items before the max_exams limit
Enumerated ==
    IF runner = "enhanced" THEN get_filtered_exam_overviews(store, config)
    ELSE get_all_exam_overviews(store)

----------------------------------------------------------------------------
(* Properties *)

\* C1: in the enhanced runner with skip_existing set, an item whose question
\* count read before processing is > 0 gets a result with status 'skipped' and
\* questions_generated = 0, run_pipeline is never invoked for it and it never
\* enters the retry loop, whatever the list and the processor do and whether
\* or not the count reaches total_questions.
C1_SkipExisting ==
    (runner = "enhanced" /\ config.skip_existing) =>
        /\ \A k \in 1..Len(results) :
             results[k].questions_before > 0 =>
                /\ results[k].status = "skipped"
                /\ results[k].questions_generated = 0
                /\ Events("run_pipeline", ItemOf(k)) = {}
        /\ pc = "attempt" => existing_count = 0

\* a skipped item holding fewer questions than its total_questions, in a run
\* that also invoked run_pipeline for another item
C1_Witness ==
    /\ runner = "enhanced" /\ config.skip_existing
    /\ \E k \in 1..Len(results) :
         /\ results[k].status = "skipped"
         /\ results[k].questions_before > 0
         /\ results[k].questions_before
              < exam_overviews[ItemOf(k)].total_questions
    /\ \E e \in 1..Len(trace) : trace[e].ev = "run_pipeline"

\* C2: with max_retries = r >= 0, no item gets more than r+1 run_pipeline
\* invocations, and a processed item whose run_pipeline call raised on every
\* attempt got exactly r+1 invocations and has exactly one result, with status
\* 'failed', retries = r and error = the message of the last failure.
C2_RetryBudget ==
    (runner = "enhanced" /\ config.max_retries >= 0) =>
        /\ \A j \in 1..Len(exam_overviews) :
             Cardinality(Events("run_pipeline", j)) <= config.max_retries + 1
        /\ (hist.item > 0 /\ hist.all_raised /\ pc # "attempt") =>
             /\ Cardinality(Events("run_pipeline", hist.item))
                  = config.max_retries + 1
             /\ Cardinality(ResultsOf(hist.item)) = 1
             /\ \A k \in ResultsOf(hist.item) :
                  /\ results[k].status = "failed"
                  /\ results[k].retries = config.max_retries
                  /\ results[k].error = hist.last_raised
                  /\ results[k].error # None

\* an item failed after two raising run_pipeline calls (max_retries = 1)
C2_Witness ==
    /\ runner = "enhanced" /\ config.max_retries = 1
    /\ hist.item > 0 /\ hist.all_raised /\ pc # "attempt"
    /\ Cardinality(Events("run_pipeline", hist.item)) = 2
    /\ \E k \in ResultsOf(hist.item) :
         results[k].status = "failed" /\ results[k].error = ErrCommit

\* C3: with continue_on_error = false a 'failed' result is the last entry of
\* the result list, the list's length is the 1-based index of the failed item,
\* the loop is over, no later item had its progress queried or run_pipeline
\* invoked, and the list returned is that partial list.
C3_EarlyStop ==
    (runner = "enhanced" /\ ~config.continue_on_error) =>
        \A k \in 1..Len(results) :
            results[k].status = "failed" =>
                /\ k = Len(results)
                /\ ItemOf(k) = Len(results)
                /\ pc \in {"summary", "done"}
                /\ \A j \in (ItemOf(k) + 1)..Len(exam_overviews) :
                     /\ Events("query_before", j) = {}
                     /\ Events("run_pipeline", j) = {}
                /\ pc = "done" => returned = ReturnList(results)

\* the second of three items failed and the run returned two results
C3_Witness ==
    /\ runner = "enhanced" /\ ~config.continue_on_error
    /\ pc = "done" /\ total_exams = 3 /\ Len(results) = 2
    /\ results[1].status = "completed"
    /\ results[2].status = "failed"

\* C4: with continue_on_error = true the returned list holds exactly one
\* result per work item and completed + skipped + failed = number of items.
C4_OneResultPerItem ==
    (runner = "enhanced" /\ config.continue_on_error /\ pc = "done"
     /\ returned.kind = "list") =>
        /\ Len(returned.v) = total_exams
        /\ \A j \in 1..Len(exam_overviews) : Cardinality(ResultsOf(j)) = 1
        /\ completed + skipped + failed = total_exams

\* C5: an error raised while one item is handled never leaves
\* run_enhanced_batch_pipeline; when it ends the item's handling (the progress
\* query before processing raised, or the last attempt failed) the item has a
\* 'failed' result carrying the message; and with continue_on_error = true the
\* run goes on to every item.
C5_ErrorsRecorded ==
    runner = "enhanced" =>
        /\ (pc = "done" /\ returned.kind = "raised") => i = 0
        /\ \A j \in 1..Len(exam_overviews) :
             Events("log_unexpected_error", j) # {} =>
                \E k \in ResultsOf(j) :
                    results[k].status = "failed" /\ results[k].error # None
        /\ (config.continue_on_error /\ pc \in {"summary", "done"}) =>
             \A j \in 1..Len(exam_overviews) : Events("query_before", j) # {}

\* C6: after a first run with skip_existing = true that ended with no 'failed'
\* result, a second run with the same config over the resulting store (its
\* progress queries succeeding) yields 'skipped' for every item and never
\* invokes run_pipeline.
C6_SecondRunAllSkipped ==
    (run = 2 /\ \A j \in 1..Len(exam_overviews) :
                    Events("log_unexpected_error", j) = {}) =>
        /\ pc # "attempt"
        /\ \A e \in 1..Len(trace) : trace[e].ev # "run_pipeline"
        /\ \A k \in 1..Len(results) : results[k].status = "skipped"
        /\ pc = "done" => Len(results) = total_exams

\* C7: get_filtered_exam_overviews returns exactly the rows of exam_overview
\* whose exam, grade and level each lie in the corresponding filter, a filter
\* that is None or an empty list imposing no restriction.
C7_FilterConjunction ==
    (pc # "start" /\ ~FetchFailed) =>
        LET Restricts(f) == ~f.none /\ f.v # <<>>
            In(x, f) == \E k \in 1..Len(f.v) : f.v[k] = x
            expected ==
                {o \in store :
                    /\ Restricts(config.exam_filter)
                         => In(o.exam, config.exam_filter)
                    /\ Restricts(config.grade_filter)
                         => In(o.grade, config.grade_filter)
                    /\ Restricts(config.level_filter)
                         => In(o.level, config.level_filter)}
        IN  /\ Range(exam_overviews) = expected
            /\ Len(exam_overviews) = Cardinality(expected)

\* exam and grade filters set, each alone keeping a row the other rejects
C7_Witness ==
    /\ pc # "start"
    /\ store = Overviews
    /\ config.exam_filter = Some(<<"IMO">>)
    /\ config.grade_filter = Some(<<6>>)
    /\ config.level_filter = Some(<<>>)
    /\ Len(exam_overviews) = 1
    /\ exam_overviews[1].exam_overview_id = 2

\* C8: with max_exams an integer m the processed list has at most m items,
\* the first m of the enumerated list; with max_exams None it is the whole
\* enumerated list.  (Stated for m >= 0: no list has at most m < 0 items.)
C8_Limit ==
    (pc # "start" /\ ~FetchFailed) =>
        IF config.max_exams.none THEN exam_overviews = Enumerated
        ELSE config.max_exams.v >= 0 =>
               /\ Len(exam_overviews) <= config.max_exams.v
               /\ exam_overviews
                    = SubSeq(Enumerated, 1,
                             Min(config.max_exams.v, Len(Enumerated)))

C10_NoWaitAfterSkip ==
    runner = "enhanced" =>
        \A j \in 1..Len(exam_overviews) :
            Events("sleep_inter", j) # {} =>
                /\ j < total_exams
                /\ config.delay_between_exams > 0
                /\ \E k \in ResultsOf(j) :
                     results[k].status \in {"completed", "failed"}

\* C10 amended: the inter-item wait follows, exactly once, every item whose
\* result was recorded (completed, skipped, or failed without stopping the
\* run) when more items remain and the delay is > 0, and follows no other item.
C10_WaitAfterEveryResult ==
    runner = "enhanced" =>
        \A j \in 1..Len(exam_overviews) :
            /\ Cardinality(Events("sleep_inter", j)) <= 1
            /\ Events("sleep_inter", j) # {} <=>
                 /\ ResultsOf(j) # {}
                 /\ j < total_exams
                 /\ config.delay_between_exams > 0
                 /\ ~\E k \in ResultsOf(j) :
                       results[k].status = "failed"
                       /\ ~config.continue_on_error

\* a wait recorded after a skipped item
C10_Witness ==
    /\ runner = "enhanced"
    /\ \E j \in 1..Len(exam_overviews) :
         /\ Events("sleep_inter", j) # {}
         /\ \E k \in ResultsOf(j) : results[k].status = "skipped"

----------------------------------------------------------------------------
(* Sequential processing *)

\* the events of processing an item
ProcessingEvents == {"query_before", "run_pipeline", "sleep_retry"}

\* the handling of item j has ended: its result is in the list, or the runner
\* logged the exception that left the processing of the item
Handled(j) ==
    ResultsOf(j) # {} \/ Events("log_unexpected_error", j) # {}

\* C11: both runners process the items one at a time in the order of the
\* list: from one event of the trace to the next the item never goes back
\* (so the progress query, the run_pipeline calls and the waits of an item
\* all come after those of the items before it), the progress query of an
\* item is issued only when the handling of every item before it has ended,
\* at most one item (the current one) is in progress, and the results (and
\* the returned list) are in the order of the list.
C11_SequentialInOrder ==
    /\ \A k \in 1..(Len(trace) - 1) :
         (trace[k].ev \in ProcessingEvents
             \/ trace[k + 1].ev \in ProcessingEvents)
            => trace[k].item <= trace[k + 1].item
    /\ \A j \in 1..Len(exam_overviews) :
         Events("query_before", j) # {} =>
            /\ \A before \in 1..(j - 1) : Handled(before)
            /\ ~Handled(j) => j = i
    /\ \A k \in 1..(Len(results) - 1) : ItemOf(k) < ItemOf(k + 1)
    /\ returned.kind = "list" => returned.v = results

\* a finished run that called run_pipeline for two items and returned their
\* results
C11_Witness ==
    /\ pc = "done" /\ returned.kind = "list" /\ Len(returned.v) >= 2
    /\ \E j \in 1..Len(exam_overviews) :
         /\ Events("run_pipeline", j) # {}
         /\ Events("run_pipeline", j + 1) # {}
         /\ ResultsOf(j) # {} /\ ResultsOf(j + 1) # {}

----------------------------------------------------------------------------
(* The processor and the persistence step *)

LogEntries == {pl.log[k] : k \in 1..Len(pl.log)}

\* rows of the questions table written by the runner
WrittenRows == {k \in 1..Len(pl.table) : pl.table[k].call > 0}

\* C12: an item is reported 'completed' only when its exam has sections and
\* the generation of every section and the save of every question succeeded;
\* otherwise run_pipeline raises.
C12_FailuresNotHidden ==
    pl.status = "completed" =>
        /\ Sections(pl.exam_overview_id) > 0
        /\ \A k \in 1..Len(pl.results) : ~pl.results[k].raised
        /\ \A e \in LogEntries : ~e.failed

\* C13 (as claimed): a question whose text is already stored, compared
\* case-insensitively, adds no row, so no two rows written by the runner have
\* the same lower-cased question_text.
C13_NoDuplicateRows ==
    /\ \A e \in LogEntries : e.notice => ~e.inserted
    /\ \A a, b \in WrittenRows :
         a # b => Lower(pl.table[a].question_text)
                    # Lower(pl.table[b].question_text)

\* C13 (amended): the duplicate check compares the lower-cased texts and
\* only reports: a notice is printed exactly for the questions whose
\* lower-cased text is already in the table, and a call that returns has
\* added one row per question whose INSERT did not raise, notice or not.
C13_DuplicatesDetectedNotPrevented ==
    /\ \A e \in LogEntries : e.notice <=> Lower(e.question_text) \in e.seen
    /\ pl.pc = "returned" =>
         /\ Cardinality({k \in 1..Len(pl.table) : pl.table[k].call = pl.call})
              = pl.total_saved
         /\ Cardinality({k \in 1..Len(pl.log) : ~pl.log[k].failed})
              = pl.total_saved

\* a call returned after a retry, and two rows written by the runner differ
\* in case only, the second one saved with a notice
C13_Witness ==
    /\ pl.pc = "returned" /\ pl.call > 1
    /\ \E a, b \in WrittenRows :
         /\ a < b
         /\ pl.table[a].question_text # pl.table[b].question_text
         /\ Lower(pl.table[a].question_text) = Lower(pl.table[b].question_text)
    /\ \E e \in LogEntries : e.notice /\ e.inserted

\* C14: a duplicate found at save time is no error: the question is inserted
\* next to the existing row and counted, the questions after it are saved as
\* well, and run_pipeline raises only for a missing exam, an unreachable
\* store or a failed commit.
C14_DuplicateIsNotAnError ==
    /\ \A e \in LogEntries :
         (e.notice /\ ~e.failed) => (e.inserted /\ e.kept /\ e.counted)
    /\ \A sec \in 1..(pl.next - 1) :
         {e.pos : e \in {x \in LogEntries : x.section = sec}}
             = 1..Len(pl.results[sec].questions)
    /\ pl.pc = "raised" => pl.error \in {ErrNoExam, ErrDb, ErrCommit}

\* an item reported 'completed' by its first call although a duplicate was
\* noticed, with a question saved after the duplicate in the same section
C14_Witness ==
    /\ pl.status = "completed" /\ pl.call = 1
    /\ \E e, f \in LogEntries :
         /\ e.notice /\ e.inserted /\ e.counted
         /\ f.section = e.section /\ f.pos > e.pos /\ f.inserted

----------------------------------------------------------------------------
(* Enumeration failure, termination *)

\* C15: when the enumeration of the work items raises, the error leaves the
\* runner: the run is over with the exception and no result list, no progress
\* query was issued, run_pipeline was never called and no result was built.
C15_EnumerationFailureAborts ==
    FetchFailed =>
        /\ pc = "done"
        /\ returned.kind = "raised" /\ returned.error = ErrDb
        /\ results = <<>>
        /\ \A k \in 1..Len(trace) :
             trace[k].ev \notin {"query_before", "run_pipeline", "summary"}

\* the enhanced runner over a store holding exam overviews, the enumeration
\* having raised
C15_Witness ==
    /\ runner = "enhanced" /\ store # {} /\ FetchFailed
    /\ returned = Raise(ErrDb)

\* C16: a run of the enhanced runner whose enumeration succeeded with a
\* non-empty list ends by emitting the final summary and returning the result
\* list, whatever the BatchConfig; the summary step raises nothing.  (The
\* empty enumeration, which returns before the summary, is the case of C9.)
C16_EndsWithSummary ==
    (runner = "enhanced" /\ pc = "done" /\ ~FetchFailed /\ Enumerated # <<>>)
        => /\ returned = ReturnList(results)
           /\ trace # <<>> /\ trace[Len(trace)].ev = "summary"

----------------------------------------------------------------------------
(* The command line *)

\* the runner was called by main()
RunnerCalled == args # NoArgs /\ pc # "cli"

\* C17: the BatchConfig a run started from the command line executes with
\* has max_retries >= 0 and delay_between_exams >= 0.
C17_ConfigValid ==
    RunnerCalled =>
        config.max_retries >= 0 /\ config.delay_between_exams >= 0

\* C18: in every mode the run executes with the skip_existing,
\* delay_between_exams, max_retries, max_exams and filters parsed from the
\* command line.
C18_OptionsTakeEffect ==
    RunnerCalled =>
        /\ config.skip_existing = args.skip_existing
        /\ config.delay_between_exams = args.delay
        /\ config.max_retries = args.retries
        /\ config.max_exams = args.max_exams
        /\ config.exam_filter = args.exam
        /\ config.grade_filter = args.grade
        /\ config.level_filter = args.level

\* C19: once the work items are enumerated, in mode grade6 they are exactly
\* the grade-6 exam overviews of the store, and in mode imo every one of them
\* is an IMO exam.
C19_ModeFilters ==
    (RunnerCalled /\ pc # "start") =>
        /\ args.mode = "grade6" =>
             {exam_overviews[k] : k \in 1..Len(exam_overviews)}
                 = {o \in store : o.grade = 6}
        /\ args.mode = "imo" =>
             \A k \in 1..Len(exam_overviews) : exam_overviews[k].exam = "IMO"

----------------------------------------------------------------------------
(* The basic runner and existing questions *)

\* C20: the basic runner called with skip_existing = False processes every
\* exam, run_pipeline being called for each whatever its question count; an
\* exam is skipped only when skip_existing is True and its count is > 0.
C20_BasicProcessesAll ==
    runner = "basic" =>
        /\ \A k \in 1..Len(results) :
             results[k].status = "skipped" =>
                 (config.skip_existing /\ results[k].questions_before > 0)
        /\ ~config.skip_existing =>
             \A j \in 1..Len(exam_overviews) :
                 ResultsOf(j) # {} => Events("run_pipeline", j) # {}

----------------------------------------------------------------------------
(* Resume *)

\* exam overviews for which run_pipeline was called in this run
ProcessedIds ==
    {exam_overviews[trace[k].item].exam_overview_id
        : k \in {x \in 1..Len(trace) : trace[x].ev = "run_pipeline"}}

\* C21: when a resume run in which the processor never failed is over,
\* run_pipeline was called once for every exam that had no question when the
\* run started, wherever it lies in the list, and for no other exam.
C21_ResumeProcessesRemaining ==
    (remaining_exams # <<>> /\ pc = "done" /\ returned.kind = "list"
        /\ \A k \in 1..Len(results) : results[k].status # "failed")
    => /\ ProcessedIds = {o.exam_overview_id : o \in Range(remaining_exams)}
       /\ \A j \in 1..Len(exam_overviews) :
            Cardinality(Events("run_pipeline", j)) <= 1

----------------------------------------------------------------------------
(* The retry loop *)

\* C23: in the enhanced runner a 'completed' result has retries equal to the
\* number of attempts made for the item before the one that succeeded, within
\* 0..max_retries, questions_generated = questions_after - questions_before,
\* and the attempt that succeeded is the last run_pipeline call for the item.
C23_CompletedResult ==
    runner = "enhanced" =>
        \A k \in 1..Len(results) :
            results[k].status = "completed" =>
                LET calls == Events("run_pipeline", ItemOf(k))
                IN  /\ results[k].retries = Cardinality(calls) - 1
                    /\ results[k].retries \in 0..config.max_retries
                    /\ \A c \in calls : trace[c].att <= results[k].retries
                    /\ results[k].questions_generated =
                         results[k].questions_after
                             - results[k].questions_before

\* an item completed at its second attempt, with questions generated
C23_Witness ==
    /\ runner = "enhanced"
    /\ \E k \in 1..Len(results) :
         /\ results[k].status = "completed"
         /\ results[k].retries = 1
         /\ results[k].questions_generated > 0

\* C24: a run_pipeline attempt after the first one comes right after one
\* wait that follows the attempt before it, and every wait of the retry loop
\* is followed by the next attempt: no wait follows the last allowed attempt.
C24_RetryBackoff ==
    \A k \in 1..Len(trace) :
        /\ (trace[k].ev = "run_pipeline" /\ trace[k].att > 0) =>
              /\ k > 2
              /\ trace[k - 1]
                   = Ev("sleep_retry", trace[k].item, trace[k].att - 1)
              /\ trace[k - 2]
                   = Ev("run_pipeline", trace[k].item, trace[k].att - 1)
        /\ trace[k].ev = "sleep_retry" =>
              IF k < Len(trace)
              THEN trace[k + 1]
                     = Ev("run_pipeline", trace[k].item, trace[k].att + 1)
              ELSE pc = "attempt" /\ i = trace[k].item
                   /\ attempt = trace[k].att + 1

\* an item failed after two attempts with one wait between them
C24_Witness ==
    \E k \in 1..Len(trace) :
        /\ trace[k].ev = "run_pipeline" /\ trace[k].att = 1
        /\ trace[k - 1].ev = "sleep_retry"
        /\ config.max_retries = 1
        /\ \E r \in ResultsOf(trace[k].item) : results[r].status = "failed"

\* C26: the enhanced runner is about to call run_pipeline again for an item
\* only if every earlier call for that item raised.
C26_NoRepeatAfterSuccess ==
    (runner = "enhanced" /\ pc = "attempt" /\ attempt > 0) => hist.all_raised

\* C27: with no other writer, every result of the enhanced runner reports in
\* questions_after the stored question count of its item, and in
\* questions_generated the increase of that count since questions_before.
C27_AccountingMatchesStore ==
    (runner = "enhanced" /\ run = 1) =>
        \A k \in 1..Len(results) :
            /\ results[k].questions_after
                 = qcount[results[k].exam_overview_id]
            /\ results[k].questions_generated
                 = qcount[results[k].exam_overview_id]
                     - results[k].questions_before

----------------------------------------------------------------------------
(* The exam run_pipeline works on *)

\* C28: the exam_overview_id run_pipeline resolves from (exam, grade, level)
\* is the exam_overview_id of the item, the one the progress query counts.
C28_ResolvesItemId ==
    (pl.pc # "idle" /\ pl.exam_overview_id # 0) =>
        pl.exam_overview_id = pl.exam.exam_overview_id

----------------------------------------------------------------------------
(* Exit status *)

\* an exception left run_enhanced_batch_pipeline: the enumeration raised, or
\* the summary was emitted for zero exams (the division at line 283)
ExceptionEscaped == FetchFailed \/ Events("summary", 0) # {}

----------------------------------------------------------------------------
(* Parallel analysis *)

\* C22: in analyze_questions_by_grade every submitted call runs to its own
\* end under every interleaving of the worker threads: the pool never gets
\* stuck, the list is returned only after every call has ended, it holds
\* exactly one entry per fetched question id, each entry reflects the end of
\* its own call only, and the successful count plus the error count of the
\* summary is the number of question ids.
C22_OneEntryPerQuestion ==
    /\ va.pc = "pool" => ENABLED NextVisual
    /\ (va.pc = "returned" /\ va.returned.kind = "list") =>
         /\ \A k \in 1..Len(va.task) : va.task[k] \in Finished
         /\ Len(va.returned.v) = Len(va.question_ids)
         /\ \A k \in 1..Len(va.returned.v) :
              /\ va.returned.v[k].future = k
              /\ va.returned.v[k].error = None
                   <=> va.task[k] \in {"saved", "unsaved"}
         /\ va.successful + va.errors = Len(va.question_ids)

\* a list of MaxQuestionIds entries came back from a run in which one call
\* raised and another one succeeded
C22_Witness ==
    /\ va.pc = "returned" /\ va.returned.kind = "list"
    /\ Len(va.returned.v) = MaxQuestionIds
    /\ \E j, k \in 1..Len(va.task) :
         va.task[j] = "raised" /\ va.task[k] = "saved"

\* C29: every result of the visual batch without an 'error' key has its row
\* committed to question_visual_prompts.
C29_SuccessMeansSaved ==
    (va.pc = "returned" /\ va.returned.kind = "list") =>
        \A k \in 1..Len(va.returned.v) :
            va.returned.v[k].error = None
                => va.returned.v[k].question_id \in va.rows

----------------------------------------------------------------------------
(* Question batches *)

\* the text between the first and the last character that is not whitespace
Trimmed(t) ==
    LET inner == {k \in 1..Len(t) : SubSeq(t, k, k) \notin Whitespace}
    IN  IF inner = {} THEN ""
        ELSE SubSeq(t, CHOOSE k \in inner : \A j \in inner : k <= j,
                       CHOOSE k \in inner : \A j \in inner : k >= j)

TrimmedOptions(q) ==
    <<Trimmed(q.option_a), Trimmed(q.option_b), Trimmed(q.option_c),
      Trimmed(q.option_d)>>

\* position in the input of the question with the text of q
InputPosition(q) ==
    CHOOSE k \in 1..Len(qb.input) : qb.input[k].question_text = q.question_text

\* C30: a validated QuestionBatch holds only questions whose four trimmed
\* options are pairwise distinct and free of the banned phrases, each of them
\* a question of the input with its options untouched, in the order of the
\* input; skipped_count is the number of questions removed.
C30_ValidatedBatch ==
    qb.validated =>
        /\ \A k \in 1..Len(qb.questions) :
             LET q == qb.questions[k]
                 opts == TrimmedOptions(q)
             IN  /\ \A a, b \in 1..4 : a # b => opts[a] # opts[b]
                 /\ \A a \in 1..4 :
                      opts[a] \notin {"All of the above", "None of the above",
                                      "All of these", "None of these"}
                 /\ q = qb.input[InputPosition(q)]
        /\ \A k \in 1..(Len(qb.questions) - 1) :
             InputPosition(qb.questions[k]) < InputPosition(qb.questions[k + 1])
        /\ qb.skipped_count = Len(qb.input) - Len(qb.questions)
        /\ qb.skipped_count >= 0

\* a batch of MaxBatch questions lost one with options equal after trimming
\* only and kept the other
C30_Witness ==
    /\ qb.validated
    /\ Len(qb.input) = MaxBatch
    /\ Len(qb.questions) = 1 /\ qb.skipped_count = MaxBatch - 1
    /\ \E k \in 1..Len(qb.input) :
         /\ qb.input[k].option_a # qb.input[k].option_b
         /\ Trimmed(qb.input[k].option_a) = Trimmed(qb.input[k].option_b)
         /\ qb.input[k].option_c = "9" /\ qb.input[k].option_d = "10"

====
